---- MODULE Spec2Model ----
(***************************************************************************)
(* Utero AI backend: the TTS engine (backend/tts_module.py) with its       *)
(* on-disk audio cache and output directory, and the Flask handlers        *)
(* (backend/app.py) that call it.                                          *)
(*                                                                         *)
(* Strings are sequences of one-character strings.  The token LongRun      *)
(* stands for a run of MAX_TEXT_LENGTH copies of the letter "x", a letter  *)
(* that occurs nowhere else, so that texts around the length limit can be  *)
(* written down; StrLen counts it with its full length.                    *)
(* Times are whole seconds.  hashlib.md5 is taken to be collision free on  *)
(* the strings of the model: the digest of a string is represented by the  *)
(* string itself tagged as a digest.                                       *)
(***************************************************************************)
EXTENDS Integers, Sequences, FiniteSets, TLC

\* ------------------------------------------------------------------------
\* Program constants
\* ------------------------------------------------------------------------
CLEANUP_INTERVAL == 3600
MAX_TEXT_LENGTH == 5000
PERIODIC_MAX_AGE_HOURS == 1
PERIODIC_MAX_FILES == 100
SECONDS_PER_HOUR == 3600

\* ------------------------------------------------------------------------
\* Bounds of the model
\* ------------------------------------------------------------------------
\* calls (HTTP requests and direct generate_audio calls) started in a run
MaxCalls == 2
\* clock advances in a run
MaxTicks == 2
\* length of the texts and language codes of the key specification
MaxLen == 2
\* files in the cache directory when a sweep specification starts
MaxCacheFiles == 3
\* files in the output directory when a sweep specification starts
MaxOutputFiles == 3

\* ------------------------------------------------------------------------
\* Strings
\* ------------------------------------------------------------------------
LongRun == "x*MAX"
Space == " "

CharLen(c) == IF c = LongRun THEN MAX_TEXT_LENGTH ELSE 1

RECURSIVE StrLen(_)
StrLen(s) == IF s = <<>> THEN 0 ELSE CharLen(Head(s)) + StrLen(Tail(s))

RECURSIVE LStrip(_)
LStrip(s) == IF s # <<>> /\ Head(s) = Space THEN LStrip(Tail(s)) ELSE s

RECURSIVE RStrip(_)
RStrip(s) ==
    IF s # <<>> /\ s[Len(s)] = Space THEN RStrip(SubSeq(s, 1, Len(s) - 1)) ELSE s

\* str.strip()
Strip(s) == LStrip(RStrip(s))

\* mutant: the test for an empty text is missing
MutNotTextNever(text) == FALSE

\* "not text", the test for an empty string
NotText(text) == text = <<>>

\* str(bool), as an f-string formats it
BoolStr(b) == IF b THEN <<"T", "r", "u", "e">> ELSE <<"F", "a", "l", "s", "e">>

\* hashlib.md5(content.encode()).hexdigest(), collision free
Md5(content) == <<"md5", content>>

\* f"{text}_{self.lang}_{self.slow}"
KeyContent(text, lang, slow) == text \o <<"_">> \o lang \o <<"_">> \o BoolStr(slow)

\* mutant: the cache directory of the engine goes into the hashed string
MutGetCacheKeyWithDir(engine, text) ==
    Md5(KeyContent(text, engine.lang, engine.slow) \o <<"_", engine.cache_dir>>)

\* TTSEngine._get_cache_key on an engine [lang, slow, cache_dir]
GetCacheKey(engine, text) == Md5(KeyContent(text, engine.lang, engine.slow))

\* ------------------------------------------------------------------------
\* Directories: a directory is a function from the names of its files to
\* [data, mtime]
\* ------------------------------------------------------------------------
EmptyDir == [f \in {} |-> [data |-> 0, mtime |-> 0]]

File(data, mtime) == [data |-> data, mtime |-> mtime]

\* What a file holds: the number of the provider call whose audio it is
\* (1, 2, ...), nothing yet (a file just opened for writing), or bytes of
\* more than one audio.
NoData == 0
Mixed == -1

\* open(path, "wb") and write: creates the file or overwrites it
WriteFile(dir, name, data, now) ==
    [f \in DOMAIN dir \cup {name} |-> IF f = name THEN File(data, now) ELSE dir[f]]

\* Path.unlink on each of names
Unlink(dir, names) == [f \in DOMAIN dir \ names |-> dir[f]]

\* the orders in which glob("*.mp3") may list a directory
GlobOrders(dir) ==
    {s \in [1..Cardinality(DOMAIN dir) -> DOMAIN dir] :
        \A i, j \in DOMAIN s : i # j => s[i] # s[j]}

\* cache_files.sort(key=lambda f: f.stat().st_mtime): stable, oldest first
SortByMtime(s, dir) == SortSeq(s, LAMBDA f, g : dir[f].mtime < dir[g].mtime)

\* Failure points of a sweep: NoFail, a stat() that raises while sorting
\* (StatFail), or the k-th entry handled in the loop raising (k >= 1).
NoFail == 0
StatFail == -1

\* mutant: one file too few is removed
MutFilesToRemoveOneLess(n, max_files) == n - max_files - 1

\* files_to_remove = len(cache_files) - max_files
FilesToRemove(n, max_files) == n - max_files

\* mutant: the sweep makes room for one more file, removing the oldest file
\* of a directory that holds max_files files
MutCleanCacheBodyMakesRoom(dir, max_files, order, fail) ==
    IF Len(order) >= max_files
    THEN LET sorted == SortByMtime(order, dir)
             files_to_remove == FilesToRemove(Len(order), max_files) + 1
         IN [files |-> Unlink(dir, {sorted[i] : i \in 1..files_to_remove \cap DOMAIN sorted}),
             raised |-> FALSE, failed |-> {}]
    ELSE [files |-> dir, raised |-> FALSE, failed |-> {}]

\* The try block of clean_cache.  order is the glob listing; the result
\* holds the directory afterwards, whether an exception left the block and
\* the entry it was raised on.
CleanCacheBody(dir, max_files, order, fail) ==
    IF Len(order) > max_files
    THEN IF fail = StatFail
         THEN [files |-> dir, raised |-> TRUE, failed |-> {}]
         ELSE LET sorted == SortByMtime(order, dir)
                  files_to_remove == FilesToRemove(Len(order), max_files)
              IN IF fail \in 1..files_to_remove
                 THEN [files |-> Unlink(dir, {sorted[i] : i \in 1..(fail - 1)}),
                       raised |-> TRUE, failed |-> {sorted[fail]}]
                 ELSE [files |-> Unlink(dir, {sorted[i] : i \in 1..files_to_remove}),
                       raised |-> FALSE, failed |-> {}]
    ELSE [files |-> dir, raised |-> FALSE, failed |-> {}]

\* clean_cache: the try block under "except Exception", which logs the
\* exception (logged) and lets none out (raised)
clean_cache(dir, max_files, order, fail) ==
    LET r == CleanCacheBody(dir, max_files, order, fail)
    IN [files |-> r.files, raised |-> FALSE, logged |-> r.raised, failed |-> r.failed]

\* mutant: a file whose age equals the limit is removed too
MutIsStaleAtLimit(file, current_time, max_age_hours) ==
    current_time - file.mtime >= max_age_hours * SECONDS_PER_HOUR

\* file_age > max_age_seconds
IsStale(file, current_time, max_age_hours) ==
    current_time - file.mtime > max_age_hours * SECONDS_PER_HOUR

\* The try block of clean_output: the loop over the glob listing, where
\* handling the fail-th entry (its stat, or its unlink) raises.
CleanOutputBody(dir, current_time, max_age_hours, order, fail) ==
    LET stale(i) == IsStale(dir[order[i]], current_time, max_age_hours)
    IN IF fail \in 1..Len(order)
       THEN [files |-> Unlink(dir, {order[i] : i \in {j \in 1..(fail - 1) : stale(j)}}),
             raised |-> TRUE, failed |-> {order[fail]}]
       ELSE [files |-> Unlink(dir, {order[i] : i \in {j \in 1..Len(order) : stale(j)}}),
             raised |-> FALSE, failed |-> {}]

\* mutant: clean_output without its except clause
MutCleanOutputNoExcept(dir, current_time, max_age_hours, order, fail) ==
    LET r == CleanOutputBody(dir, current_time, max_age_hours, order, fail)
    IN [files |-> r.files, raised |-> r.raised, logged |-> FALSE, failed |-> r.failed]

\* clean_output: the try block under "except Exception"
clean_output(dir, current_time, max_age_hours, order, fail) ==
    LET r == CleanOutputBody(dir, current_time, max_age_hours, order, fail)
    IN [files |-> r.files, raised |-> FALSE, logged |-> r.raised, failed |-> r.failed]

\* ------------------------------------------------------------------------
\* State
\* ------------------------------------------------------------------------
VARIABLES
    clock,              \* time.time(), in seconds since the process started
    last_cleanup_time,  \* app.py global
    cache,              \* audio_cache/: key -> file
    output,             \* audio_output/: generated id -> file
    user,               \* files at caller-given output paths: path -> file
    nextId,             \* uuid4 values drawn so far (each one fresh)
    providerCalls,      \* gTTS invocations so far
    procs,              \* the threads that serve calls
    pc,                 \* where each thread stands
    req,                \* the call a thread is serving
    loc,                \* its local variables
    resp,               \* what its last call returned
    ev,                 \* the step taken last (history)
    nCalls,             \* calls started so far
    nTicks,             \* clock advances so far
    keyIn,              \* key specification: two (engine, text) inputs
    keyOut              \* key specification: the keys computed for them

vars == <<clock, last_cleanup_time, cache, output, user, nextId, providerCalls,
          procs, pc, req, loc, resp, ev, nCalls, nTicks, keyIn, keyOut>>

fsVars == <<cache, output, user, nextId, providerCalls>>
keyVars == <<keyIn, keyOut>>

AllProcs == {1, 2}

\* ------------------------------------------------------------------------
\* Values
\* ------------------------------------------------------------------------
NoKey == Md5(<<>>)

\* a path: a cache file, a generated output file, or a caller-given path
NoPath == [dir |-> "none", key |-> NoKey, id |-> 0, name |-> "none"]
CachePath(key) == [dir |-> "cache", key |-> key, id |-> 0, name |-> "none"]
OutputPath(id) == [dir |-> "output", key |-> NoKey, id |-> id, name |-> "none"]
UserPath(name) == [dir |-> "user", key |-> NoKey, id |-> 0, name |-> name]

NoReq == [endpoint |-> "none", text |-> <<>>, lang |-> <<>>, slow |-> FALSE,
          stream |-> FALSE, use_cache |-> FALSE, output_path |-> NoPath]

\* key, calls and failed are history: the cache key that generate_audio
\* served with success, the times it invoked the provider, and the cache key
\* for which the provider failed
NoLoc == [current_time |-> 0, text |-> <<>>, output_path |-> NoPath,
          audio_path |-> NoPath, payload |-> 0, key |-> NoKey, calls |-> 0,
          failed |-> NoKey]

NoResp == [status |-> 0, body |-> "none", path |-> NoPath, key |-> NoKey, calls |-> 0,
           failed |-> NoKey]

\* The step taken last: the operation, the thread, an argument, whether an
\* exception was raised, the entries a sweep failed on, and the path returned.
\* For a return of generate_audio also the key served, the provider calls
\* made, and whether the thread's previous call served the same key with
\* success (prevSame) and the provider calls it made (prevCalls).  For a
\* direct call of a sweep also the number of files it listed and whether two
\* of them had the same modification time (ties).  For a return of
\* generate_audio also whether the cache held a file for the text (inCache).
Ev(op, p, arg, err, errOut, errCache, path) ==
    [op |-> op, p |-> p, arg |-> arg, err |-> err, errOut |-> errOut,
     errCache |-> errCache, path |-> path, key |-> NoKey, calls |-> 0,
     prevSame |-> FALSE, prevCalls |-> 0, listed |-> 0, ties |-> FALSE,
     inCache |-> FALSE]

NoEv == Ev("init", 0, 0, FALSE, {}, {}, NoPath)

\* TTSEngine(lang=lang, slow=slow) with the default cache directory
Engine(lang, slow) == [lang |-> lang, slow |-> slow, cache_dir |-> "audio_cache"]

EngineOf(r) == Engine(r.lang, r.slow)

\* two files of a directory have the same modification time
HasTies(dir) == \E f, g \in DOMAIN dir : f # g /\ dir[f].mtime = dir[g].mtime

\* Path.exists / reading of a path
Exists(path) ==
    CASE path.dir = "cache" -> path.key \in DOMAIN cache
      [] path.dir = "output" -> path.id \in DOMAIN output
      [] path.dir = "user" -> path.name \in DOMAIN user
      [] OTHER -> FALSE

Contents(path) ==
    CASE path.dir = "cache" -> cache[path.key].data
      [] path.dir = "output" -> output[path.id].data
      [] OTHER -> user[path.name].data

\* mutant: the lookup never finds the file
MutGetCachedPathNeverFound(engine, text) == NoPath

\* TTSEngine._get_cached_path
GetCachedPath(engine, text) ==
    LET cache_key == GetCacheKey(engine, text)
    IN IF cache_key \in DOMAIN cache THEN CachePath(cache_key) ELSE NoPath

\* mutant: the cache is consulted whatever use_cache says
MutCacheLookupAlways(engine, text, use_cache) == GetCachedPath(engine, text)

\* lines 99-101: "if use_cache: cached_path = self._get_cached_path(text)"
CacheLookup(engine, text, use_cache) ==
    IF use_cache THEN GetCachedPath(engine, text) ELSE NoPath

\* ------------------------------------------------------------------------
\* Inputs
\* ------------------------------------------------------------------------
Texts == {<<Space>>, <<"a">>, <<LongRun, "a">>}
Langs == {<<"i", "d">>}
UserNames == {"output.mp3"}
TickSteps == {1, CLEANUP_INTERVAL}

\* ------------------------------------------------------------------------
\* Initial state: the process has just started, both directories are empty
\* ------------------------------------------------------------------------
InitFs ==
    /\ clock = 0
    /\ last_cleanup_time = 0
    /\ cache = EmptyDir
    /\ output = EmptyDir
    /\ user = EmptyDir
    /\ nextId = 0
    /\ providerCalls = 0
    /\ pc = [p \in AllProcs |-> "idle"]
    /\ req = [p \in AllProcs |-> NoReq]
    /\ loc = [p \in AllProcs |-> NoLoc]
    /\ resp = [p \in AllProcs |-> NoResp]
    /\ ev = NoEv
    /\ nCalls = 0
    /\ nTicks = 0

NoKeyIn == <<>>

Init ==
    /\ InitFs
    /\ procs = {1}
    /\ keyIn = NoKeyIn
    /\ keyOut = <<>>

\* ------------------------------------------------------------------------
\* Time passes
\* ------------------------------------------------------------------------
Tick(dt) ==
    /\ nTicks < MaxTicks
    /\ clock' = clock + dt
    /\ nTicks' = nTicks + 1
    /\ ev' = Ev("tick", 0, dt, FALSE, {}, {}, NoPath)
    /\ UNCHANGED <<last_cleanup_time, fsVars, procs, pc, req, loc, resp, nCalls, keyVars>>

\* ------------------------------------------------------------------------
\* Direct calls of the sweeps
\* ------------------------------------------------------------------------
\* engine.clean_cache(max_files)
ApiCleanCache(max_files, order, fail) ==
    LET r == clean_cache(cache, max_files, order, fail)
    IN /\ cache' = r.files
       /\ ev' = [Ev("clean_cache", 0, max_files, r.logged, {}, r.failed, NoPath) EXCEPT
                   !.listed = Len(order), !.ties = HasTies(cache)]
       /\ nCalls' = nCalls + 1
       /\ UNCHANGED <<clock, last_cleanup_time, output, user, nextId, providerCalls,
                      procs, pc, req, loc, resp, nTicks, keyVars>>

\* engine.clean_output(max_age_hours)
ApiCleanOutput(max_age_hours, order, fail) ==
    LET r == clean_output(output, clock, max_age_hours, order, fail)
    IN /\ output' = r.files
       /\ ev' = [Ev("clean_output", 0, max_age_hours, r.logged, r.failed, {}, NoPath) EXCEPT
                   !.listed = Len(order), !.ties = HasTies(output)]
       /\ nCalls' = nCalls + 1
       /\ UNCHANGED <<clock, last_cleanup_time, cache, user, nextId, providerCalls,
                      procs, pc, req, loc, resp, nTicks, keyVars>>

\* ------------------------------------------------------------------------
\* TTSEngine.generate_audio, in the steps between which other threads run
\* ------------------------------------------------------------------------
\* the cache key of the call a thread is serving, when it uses the cache
CallKey(p) ==
    IF req[p].use_cache /\ Strip(loc[p].text) # <<>>
    THEN GetCacheKey(EngineOf(req[p]), Strip(loc[p].text))
    ELSE NoKey

\* generate_audio returns path: to the caller of a direct call, or into
\* audio_path of the HTTP handler
Return(p, op, path, err, calls) ==
    LET key == IF path # NoPath THEN CallKey(p) ELSE NoKey
        failed == IF op = "gen_synth" /\ err THEN CallKey(p) ELSE NoKey
        prevSame == resp[p].key # NoKey /\ resp[p].key = CallKey(p)
    IN /\ ev' = [Ev(op, p, 0, err, {}, {}, path) EXCEPT
                   !.key = CallKey(p), !.calls = calls, !.prevSame = prevSame,
                   !.prevCalls = IF prevSame THEN resp[p].calls ELSE 0,
                   !.inCache = GetCacheKey(EngineOf(req[p]), Strip(loc[p].text))
                                   \in DOMAIN cache]
       /\ IF req[p].endpoint = "api"
          THEN /\ pc' = [pc EXCEPT ![p] = "idle"]
               /\ resp' = [resp EXCEPT ![p] = [status |-> 0, body |-> "returned",
                                               path |-> path, key |-> key,
                                               calls |-> calls, failed |-> failed]]
               /\ req' = [req EXCEPT ![p] = NoReq]
               /\ loc' = [loc EXCEPT ![p] = NoLoc]
          ELSE /\ pc' = [pc EXCEPT ![p] = "respond"]
               /\ loc' = [loc EXCEPT ![p] = [NoLoc EXCEPT !.audio_path = path,
                                                         !.key = key, !.calls = calls,
                                                         !.failed = failed]]
               /\ UNCHANGED <<req, resp>>

\* mutant: the step that failed is tried again
MutReturnNoneTriesAgain(p, op, calls) ==
    /\ ev' = Ev(op, p, 0, TRUE, {}, {}, NoPath)
    /\ UNCHANGED <<pc, req, loc, resp>>

\* lines 129-131: "except Exception" prints the error and returns None
ReturnNone(p, op, calls) == Return(p, op, NoPath, TRUE, calls)

\* engine.generate_audio(text, output_path, use_cache) on TTSEngine(lang, slow),
\* called by a user of the module
ApiGenerate(p, text, lang, slow, output_path, use_cache) ==
    /\ pc[p] = "idle"
    /\ nCalls < MaxCalls
    /\ nCalls' = nCalls + 1
    /\ pc' = [pc EXCEPT ![p] = "gen_lookup"]
    /\ req' = [req EXCEPT ![p] = [endpoint |-> "api", text |-> text, lang |-> lang,
                                  slow |-> slow, stream |-> FALSE,
                                  use_cache |-> use_cache, output_path |-> output_path]]
    /\ loc' = [loc EXCEPT ![p] = [NoLoc EXCEPT !.text = text]]
    /\ ev' = Ev("api_generate", p, 0, FALSE, {}, {}, NoPath)
    /\ UNCHANGED <<clock, last_cleanup_time, fsVars, procs, resp, nTicks, keyVars>>

\* shutil.copy(src, dst), dst a caller-given path
CopyToUser(src, dst) == WriteFile(user, dst.name, Contents(src), clock)

\* mutant: a hit renews the modification time of the file it is served from
MutServeFromCacheTouches(p, cached_path, copy_ok) ==
    /\ cache' = [cache EXCEPT ![cached_path.key].mtime = clock]
    /\ IF req[p].output_path # NoPath
       THEN IF copy_ok
            THEN /\ user' = CopyToUser(cached_path, req[p].output_path)
                 /\ Return(p, "gen_hit", req[p].output_path, FALSE, 0)
            ELSE /\ ReturnNone(p, "gen_hit", 0)
                 /\ UNCHANGED user
       ELSE /\ Return(p, "gen_hit", cached_path, FALSE, 0)
            /\ UNCHANGED user

\* lines 101-108: the call is served from the cache file.  copy_ok: the copy
\* to the caller's output path succeeds.
ServeFromCache(p, cached_path, copy_ok) ==
    /\ UNCHANGED cache
    /\ IF req[p].output_path # NoPath
       THEN IF copy_ok
            THEN /\ user' = CopyToUser(cached_path, req[p].output_path)
                 /\ Return(p, "gen_hit", req[p].output_path, FALSE, 0)
            ELSE /\ ReturnNone(p, "gen_hit", 0)
                 /\ UNCHANGED user
       ELSE /\ Return(p, "gen_hit", cached_path, FALSE, 0)
            /\ UNCHANGED user

\* lines 89-108: the check of the text and the cache lookup
GenLookup(p, copy_ok) ==
    /\ pc[p] = "gen_lookup"
    /\ LET text == Strip(loc[p].text)
           cached_path == CacheLookup(EngineOf(req[p]), text, req[p].use_cache)
       IN IF NotText(loc[p].text) \/ NotText(text)
          THEN \* ValueError, caught at line 129
               /\ ReturnNone(p, "gen_invalid", 0)
               /\ UNCHANGED <<cache, user>>
          ELSE IF cached_path # NoPath
          THEN ServeFromCache(p, cached_path, copy_ok)
          ELSE /\ pc' = [pc EXCEPT ![p] = "gen_synth"]
               /\ loc' = [loc EXCEPT ![p].text = text]
               /\ ev' = Ev("gen_miss", p, 0, FALSE, {}, {}, NoPath)
               /\ UNCHANGED <<req, resp, cache, user>>
    /\ UNCHANGED <<clock, last_cleanup_time, output, nextId, providerCalls,
                   procs, nCalls, nTicks, keyVars>>

\* tts.save(output_path): the audio the provider returned is written
SaveAudio(path, payload) ==
    IF path.dir = "output"
    THEN /\ output' = WriteFile(output, path.id, payload, clock)
         /\ UNCHANGED user
    ELSE /\ user' = WriteFile(user, path.name, payload, clock)
         /\ UNCHANGED output

\* lines 110-117: the output path and the call of the provider.  ok: gTTS
\* answers and the audio is saved; otherwise gTTS or save raises.
GenSynthesize(p, ok) ==
    /\ pc[p] = "gen_synth"
    /\ LET generated == req[p].output_path = NoPath
           output_path == IF generated THEN OutputPath(nextId + 1) ELSE req[p].output_path
           payload == providerCalls + 1
       IN /\ nextId' = IF generated THEN nextId + 1 ELSE nextId
          /\ providerCalls' = providerCalls + 1
          /\ IF ok
             THEN /\ SaveAudio(output_path, payload)
                  /\ IF req[p].use_cache
                     THEN /\ pc' = [pc EXCEPT ![p] = "gen_open"]
                          /\ loc' = [loc EXCEPT ![p].output_path = output_path,
                                                ![p].payload = payload]
                          /\ ev' = Ev("gen_synth", p, 0, FALSE, {}, {}, output_path)
                          /\ UNCHANGED <<req, resp>>
                     ELSE Return(p, "gen_synth", output_path, FALSE, 1)
             ELSE /\ ReturnNone(p, "gen_synth", 1)
                  /\ UNCHANGED <<output, user>>
    /\ UNCHANGED <<clock, last_cleanup_time, cache, procs, nCalls, nTicks, keyVars>>

\* shutil.copy(output_path, cache_path), first part: the source is opened for
\* reading and the destination for writing, which creates it or empties it
OpenCacheFile(cache_key) == WriteFile(cache, cache_key, NoData, clock)

\* lines 119-124: the copy into the cache starts.  copy_ok: both files can
\* be opened; the source cannot when a sweep has removed it.
GenOpen(p, copy_ok) ==
    /\ pc[p] = "gen_open"
    /\ LET cache_key == GetCacheKey(EngineOf(req[p]), loc[p].text)
           output_path == loc[p].output_path
       IN IF copy_ok /\ Exists(output_path)
          THEN /\ cache' = OpenCacheFile(cache_key)
               /\ pc' = [pc EXCEPT ![p] = "gen_store"]
               /\ loc' = [loc EXCEPT ![p].payload = Contents(output_path)]
               /\ ev' = Ev("gen_open", p, 0, FALSE, {}, {}, output_path)
               /\ UNCHANGED <<req, resp>>
          ELSE /\ ReturnNone(p, "gen_open", 1)
               /\ UNCHANGED cache
    /\ UNCHANGED <<clock, last_cleanup_time, output, user, nextId, providerCalls,
                   procs, nCalls, nTicks, keyVars>>

\* mutant: the copy into the cache is left out
MutCopyToCacheLeftOut(cache_key, data) == cache

\* shutil.copy(output_path, cache_path), second part: the bytes read from
\* the source are written from the start of the destination
CopyToCache(cache_key, data) == WriteFile(cache, cache_key, data, clock)

\* lines 124-127: the copy into the cache ends and generate_audio returns.
\* The bytes go into the file this thread opened: when a sweep has removed
\* it since, they reach no file of the directory; when another thread has
\* written its audio into it since, they replace that audio as a whole
\* (whole) or, being fewer, leave its end in place.
GenStore(p, whole) ==
    /\ pc[p] = "gen_store"
    /\ LET cache_key == GetCacheKey(EngineOf(req[p]), loc[p].text)
           output_path == loc[p].output_path
       IN /\ IF cache_key \notin DOMAIN cache
             THEN UNCHANGED cache
             ELSE IF whole \/ cache[cache_key].data = NoData
             THEN cache' = CopyToCache(cache_key, loc[p].payload)
             ELSE cache' = CopyToCache(cache_key, Mixed)
          /\ Return(p, "gen_store", output_path, FALSE, 1)
    /\ UNCHANGED <<clock, last_cleanup_time, output, user, nextId, providerCalls,
                   procs, nCalls, nTicks, keyVars>>

\* ------------------------------------------------------------------------
\* app.py: the /tts and /tts/stream handlers
\* ------------------------------------------------------------------------
\* the handler returns a response
Reply(p, op, status, body, path) ==
    /\ pc' = [pc EXCEPT ![p] = "idle"]
    /\ resp' = [resp EXCEPT ![p] = [status |-> status, body |-> body, path |-> path,
                                    key |-> loc[p].key, calls |-> loc[p].calls,
                                    failed |-> loc[p].failed]]
    /\ req' = [req EXCEPT ![p] = NoReq]
    /\ loc' = [loc EXCEPT ![p] = NoLoc]
    /\ ev' = Ev(op, p, status, status # 200, {}, {}, path)

\* a request to /tts arrives (GET or POST) and text_to_speech starts
TtsBegin(p, text, lang, slow, stream) ==
    /\ pc[p] = "idle"
    /\ nCalls < MaxCalls
    /\ nCalls' = nCalls + 1
    /\ pc' = [pc EXCEPT ![p] = "cleanup_check"]
    /\ req' = [req EXCEPT ![p] = [endpoint |-> "tts", text |-> text, lang |-> lang,
                                  slow |-> slow, stream |-> stream,
                                  use_cache |-> TRUE, output_path |-> NoPath]]
    /\ loc' = [loc EXCEPT ![p] = NoLoc]
    /\ ev' = Ev("tts_begin", p, 0, FALSE, {}, {}, NoPath)
    /\ UNCHANGED <<clock, last_cleanup_time, fsVars, procs, resp, nTicks, keyVars>>

\* run_periodic_cleanup, lines 55-57: the clock is read and compared
RunPeriodicCleanupCheck(p) ==
    /\ pc[p] = "cleanup_check"
    /\ IF clock - last_cleanup_time > CLEANUP_INTERVAL
       THEN /\ pc' = [pc EXCEPT ![p] = "cleanup_sweep"]
            /\ loc' = [loc EXCEPT ![p].current_time = clock]
            /\ ev' = Ev("cleanup_due", p, 0, FALSE, {}, {}, NoPath)
       ELSE /\ pc' = [pc EXCEPT ![p] = "validate"]
            /\ ev' = Ev("cleanup_skip", p, 0, FALSE, {}, {}, NoPath)
            /\ UNCHANGED loc
    /\ UNCHANGED <<clock, last_cleanup_time, fsVars, procs, req, resp, nCalls, nTicks,
                   keyVars>>

\* run_periodic_cleanup, lines 58-60: both sweeps and the new timestamp.  An
\* exception that left a sweep would leave text_to_speech too (line 103 is
\* outside its try) and Flask would answer 500.
RunPeriodicCleanupSweep(p, oOrder, oFail, cOrder, cFail) ==
    /\ pc[p] = "cleanup_sweep"
    /\ LET ro == clean_output(output, clock, PERIODIC_MAX_AGE_HOURS, oOrder, oFail)
           rc == clean_cache(cache, PERIODIC_MAX_FILES, cOrder, cFail)
       IN IF ro.raised
          THEN /\ output' = ro.files
               /\ Reply(p, "cleanup_raised", 500, "internal", NoPath)
               /\ UNCHANGED <<cache, last_cleanup_time>>
          ELSE IF rc.raised
          THEN /\ output' = ro.files
               /\ cache' = rc.files
               /\ Reply(p, "cleanup_raised", 500, "internal", NoPath)
               /\ UNCHANGED last_cleanup_time
          ELSE /\ output' = ro.files
               /\ cache' = rc.files
               /\ last_cleanup_time' = loc[p].current_time
               /\ pc' = [pc EXCEPT ![p] = "validate"]
               /\ ev' = Ev("cleanup_sweep", p, 0, ro.logged \/ rc.logged, ro.failed,
                           rc.failed, NoPath)
               /\ UNCHANGED <<req, loc, resp>>
    /\ UNCHANGED <<clock, user, nextId, providerCalls, procs, nCalls, nTicks, keyVars>>

\* text_to_speech, lines 105-138: the text is trimmed and validated, the
\* engine is created and generate_audio is called
TtsValidate(p) ==
    /\ pc[p] = "validate"
    /\ req[p].endpoint = "tts"
    /\ LET text == Strip(req[p].text)
       IN IF NotText(text)
          THEN Reply(p, "tts_invalid", 400, "required", NoPath)
          ELSE IF StrLen(text) > MAX_TEXT_LENGTH
          THEN Reply(p, "tts_invalid", 400, "too_long", NoPath)
          ELSE /\ pc' = [pc EXCEPT ![p] = "gen_lookup"]
               /\ loc' = [loc EXCEPT ![p].text = text]
               /\ ev' = Ev("tts_valid", p, 0, FALSE, {}, {}, NoPath)
               /\ UNCHANGED <<req, resp>>
    /\ UNCHANGED <<clock, last_cleanup_time, fsVars, procs, nCalls, nTicks, keyVars>>

\* a POST to /tts/stream arrives and tts_stream starts, lines 210-214
StreamBegin(p, text, lang, slow) ==
    /\ pc[p] = "idle"
    /\ nCalls < MaxCalls
    /\ nCalls' = nCalls + 1
    /\ pc' = [pc EXCEPT ![p] = "validate"]
    /\ req' = [req EXCEPT ![p] = [endpoint |-> "tts_stream", text |-> text, lang |-> lang,
                                  slow |-> slow, stream |-> TRUE,
                                  use_cache |-> TRUE, output_path |-> NoPath]]
    /\ loc' = [loc EXCEPT ![p] = NoLoc]
    /\ ev' = Ev("stream_begin", p, 0, FALSE, {}, {}, NoPath)
    /\ UNCHANGED <<clock, last_cleanup_time, fsVars, procs, resp, nTicks, keyVars>>

\* tts_stream, lines 216-224
StreamValidate(p) ==
    /\ pc[p] = "validate"
    /\ req[p].endpoint = "tts_stream"
    /\ LET text == Strip(req[p].text)
       IN IF NotText(text)
          THEN Reply(p, "stream_invalid", 400, "required", NoPath)
          ELSE /\ pc' = [pc EXCEPT ![p] = "gen_lookup"]
               /\ loc' = [loc EXCEPT ![p].text = text]
               /\ ev' = Ev("stream_valid", p, 0, FALSE, {}, {}, NoPath)
               /\ UNCHANGED <<req, resp>>
    /\ UNCHANGED <<clock, last_cleanup_time, fsVars, procs, nCalls, nTicks, keyVars>>

\* text_to_speech, lines 140-172, and tts_stream, lines 226-245: the answer.
\* send_file raises when the file is gone, which the handler's except
\* turns into a 500.
Respond(p) ==
    /\ pc[p] = "respond"
    /\ LET audio_path == loc[p].audio_path
       IN IF audio_path = NoPath
          THEN Reply(p, "respond", 500, "failed", NoPath)
          ELSE IF req[p].stream
          THEN IF Exists(audio_path)
               THEN Reply(p, "respond", 200, "audio", audio_path)
               ELSE Reply(p, "respond", 500, "exception", NoPath)
          ELSE Reply(p, "respond", 200, "json", audio_path)
    /\ UNCHANGED <<clock, last_cleanup_time, fsVars, procs, nCalls, nTicks, keyVars>>

\* ------------------------------------------------------------------------
\* The HTTP service: requests to /tts and /tts/stream, served one at a time
\* ------------------------------------------------------------------------
\* the speeds the requests ask for
HttpSlows == {FALSE}

Next ==
    \/ \E dt \in TickSteps : Tick(dt)
    \/ \E p \in procs, text \in Texts, lang \in Langs, slow \in HttpSlows,
          stream \in BOOLEAN :
            TtsBegin(p, text, lang, slow, stream)
    \/ \E p \in procs : RunPeriodicCleanupCheck(p)
    \/ \E p \in procs, oOrder \in GlobOrders(output),
          oFail \in NoFail..Cardinality(DOMAIN output),
          cOrder \in GlobOrders(cache),
          cFail \in StatFail..Cardinality(DOMAIN cache) :
            RunPeriodicCleanupSweep(p, oOrder, oFail, cOrder, cFail)
    \/ \E p \in procs : TtsValidate(p)
    \/ \E p \in procs, text \in Texts, lang \in Langs, slow \in HttpSlows :
            StreamBegin(p, text, lang, slow)
    \/ \E p \in procs : StreamValidate(p)
    \/ \E p \in procs, copy_ok \in BOOLEAN : GenLookup(p, copy_ok)
    \/ \E p \in procs, ok \in BOOLEAN : GenSynthesize(p, ok)
    \/ \E p \in procs, copy_ok \in BOOLEAN : GenOpen(p, copy_ok)
    \/ \E p \in procs, whole \in BOOLEAN : GenStore(p, whole)
    \/ \E p \in procs : Respond(p)

Spec == Init /\ [][Next]_vars

\* ------------------------------------------------------------------------
\* The module used directly: generate_audio called on engines of any
\* language and speed, with and without an output path and the cache
\* ------------------------------------------------------------------------
ApiTexts == {<<Space>>, <<"a">>, <<"a", Space>>}

NextApi ==
    \/ \E dt \in TickSteps : Tick(dt)
    \/ \E p \in procs, text \in ApiTexts, lang \in Langs, slow \in BOOLEAN,
          output_path \in {NoPath} \cup {UserPath(n) : n \in UserNames},
          use_cache \in BOOLEAN :
            ApiGenerate(p, text, lang, slow, output_path, use_cache)
    \/ \E p \in procs, copy_ok \in BOOLEAN : GenLookup(p, copy_ok)
    \/ \E p \in procs, ok \in BOOLEAN : GenSynthesize(p, ok)
    \/ \E p \in procs, copy_ok \in BOOLEAN : GenOpen(p, copy_ok)
    \/ \E p \in procs, whole \in BOOLEAN : GenStore(p, whole)

SpecApi == Init /\ [][NextApi]_vars

\* ------------------------------------------------------------------------
\* _get_cache_key as a function: two engines compute the key of a text each
\* ------------------------------------------------------------------------
KeyChars == {"a", "_"}
KeyStrings == UNION {[1..n -> KeyChars] : n \in 1..MaxLen}
CacheDirs == {"audio_cache", "other_cache"}

KeyInputs ==
    [text : KeyStrings, lang : KeyStrings, slow : BOOLEAN, cache_dir : CacheDirs]

InitKey ==
    /\ InitFs
    /\ procs = {1}
    /\ keyIn \in {in \in [1..2 -> KeyInputs] : in[1].cache_dir = "audio_cache"}
    /\ keyOut = <<>>

\* both engines are asked for the key of their text
ComputeKeys ==
    /\ keyOut = <<>>
    /\ keyOut' = [i \in 1..2 |->
                    GetCacheKey([lang |-> keyIn[i].lang, slow |-> keyIn[i].slow,
                                 cache_dir |-> keyIn[i].cache_dir], keyIn[i].text)]
    /\ UNCHANGED <<clock, last_cleanup_time, fsVars, procs, pc, req, loc, resp, ev,
                   nCalls, nTicks, keyIn>>

NextKey == ComputeKeys

SpecKey == InitKey /\ [][NextKey]_vars

\* ------------------------------------------------------------------------
\* The sweeps as functions of the directories: the process starts on
\* directories that earlier runs have filled, and the sweeps are called
\* ------------------------------------------------------------------------
\* the time at which the sweeps run, and the modification times of the files
SweepNow == 2 * SECONDS_PER_HOUR
SweepMtimes == {SweepNow, SweepNow - SECONDS_PER_HOUR, SweepNow - SECONDS_PER_HOUR - 1}
MaxFilesArgs == 0..2
MaxAgeArgs == 0..1

\* the text of the i-th cache file: i letters
SweepText(i) == [j \in 1..i |-> "a"]
SweepKey(i) == GetCacheKey(Engine(<<"i", "d">>, FALSE), SweepText(i))

\* the directories with nc cache files and no output files of any age
SweepDirs(nc, no) ==
    /\ \E n \in 0..nc : \E mt \in [1..n -> SweepMtimes] :
         cache = [k \in {SweepKey(i) : i \in 1..n} |->
                    LET i == CHOOSE i \in 1..n : SweepKey(i) = k IN File(i, mt[i])]
    /\ \E n \in 0..no : \E mt \in [1..n -> SweepMtimes] :
         /\ output = [i \in 1..n |-> File(i, mt[i])]
         /\ nextId = n

\* one directory is filled up to its bound while the other holds one file
\* at most
InitSweep ==
    /\ clock = SweepNow
    /\ last_cleanup_time = SweepNow
    /\ SweepDirs(MaxCacheFiles, 1) \/ SweepDirs(1, MaxOutputFiles)
    /\ user = EmptyDir
    /\ providerCalls = 0
    /\ pc = [p \in AllProcs |-> "idle"]
    /\ req = [p \in AllProcs |-> NoReq]
    /\ loc = [p \in AllProcs |-> NoLoc]
    /\ resp = [p \in AllProcs |-> NoResp]
    /\ ev = NoEv
    /\ nCalls = 0
    /\ nTicks = 0
    /\ procs = {1}
    /\ keyIn = NoKeyIn
    /\ keyOut = <<>>

\* one sweep is called in a run
NextSweep ==
    \/ \E m \in MaxFilesArgs : \E order \in GlobOrders(cache),
          fail \in {StatFail, NoFail} \cup 1..(Cardinality(DOMAIN cache) - m) :
            nCalls = 0 /\ ApiCleanCache(m, order, fail)
    \/ \E h \in MaxAgeArgs, order \in GlobOrders(output),
          fail \in NoFail..Cardinality(DOMAIN output) :
            nCalls = 0 /\ ApiCleanOutput(h, order, fail)

SpecSweep == InitSweep /\ [][NextSweep]_vars

\* ------------------------------------------------------------------------
\* The HTTP service under load: Flask's server gives every request a thread
\* of its own (app.run, threaded by default), so two requests are served at
\* the same time.  The process starts on a cache directory that earlier runs
\* have filled beyond the limit of the periodic sweep.
\* ------------------------------------------------------------------------
Digits == <<"0", "1", "2", "3", "4", "5", "6", "7", "8", "9">>

\* str(i), the text of the i-th file of the filled cache
RECURSIVE FillText(_)
FillText(i) ==
    IF i < 10 THEN <<Digits[i + 1]>> ELSE FillText(i \div 10) \o <<Digits[(i % 10) + 1]>>

FillKey(i) == GetCacheKey(Engine(<<"i", "d">>, FALSE), FillText(i))

\* the files of the filled cache: the i-th was written at time i
FilledCache(n) ==
    [k \in {FillKey(i) : i \in 1..n} |->
        LET i == CHOOSE i \in 1..n : FillKey(i) = k IN File(i, i)]

\* the texts requested: that of the oldest cached file, and one not cached
ConcTexts == {FillText(1), <<"b">>}

\* the names a cache file can have under these requests
ConcKeys ==
    [i \in 1..(PERIODIC_MAX_FILES + 2) |->
        IF i <= PERIODIC_MAX_FILES + 1 THEN FillKey(i)
        ELSE GetCacheKey(Engine(<<"i", "d">>, FALSE), <<"b">>)]

\* one listing of the cache directory; the sweep of a directory whose oldest
\* files differ in their modification time does not depend on the listing
ConcListing == SelectSeq(ConcKeys, LAMBDA k : k \in DOMAIN cache)

InitConc ==
    /\ clock = PERIODIC_MAX_FILES + 1
    /\ last_cleanup_time = PERIODIC_MAX_FILES + 1
    /\ cache = FilledCache(PERIODIC_MAX_FILES + 1)
    /\ output = EmptyDir
    /\ user = EmptyDir
    /\ nextId = 0
    /\ providerCalls = 0
    /\ pc = [p \in AllProcs |-> "idle"]
    /\ req = [p \in AllProcs |-> NoReq]
    /\ loc = [p \in AllProcs |-> NoLoc]
    /\ resp = [p \in AllProcs |-> NoResp]
    /\ ev = NoEv
    /\ nCalls = 0
    /\ nTicks = 0
    /\ procs = AllProcs
    /\ keyIn = NoKeyIn
    /\ keyOut = <<>>

NextConc ==
    \/ \E dt \in TickSteps : Tick(dt)
    \/ \E p \in procs, text \in ConcTexts, lang \in Langs, slow \in HttpSlows,
          stream \in BOOLEAN :
            TtsBegin(p, text, lang, slow, stream)
    \/ \E p \in procs : RunPeriodicCleanupCheck(p)
    \/ \E p \in procs, oOrder \in GlobOrders(output) :
            RunPeriodicCleanupSweep(p, oOrder, NoFail, ConcListing, NoFail)
    \/ \E p \in procs : TtsValidate(p)
    \/ \E p \in procs, text \in ConcTexts, lang \in Langs, slow \in HttpSlows :
            StreamBegin(p, text, lang, slow)
    \/ \E p \in procs : StreamValidate(p)
    \/ \E p \in procs : GenLookup(p, TRUE)
    \/ \E p \in procs : GenSynthesize(p, TRUE)
    \/ \E p \in procs : GenOpen(p, TRUE)
    \/ \E p \in procs, whole \in BOOLEAN : GenStore(p, whole)
    \/ \E p \in procs : Respond(p)

SpecConc == InitConc /\ [][NextConc]_vars

\* ------------------------------------------------------------------------
\* Properties
\* ------------------------------------------------------------------------

\* C1: a call of generate_audio with use_cache whose key has a file in the
\* cache does not invoke the provider and, given no output path, returns the
\* cache path; and a call that follows a successful call of the same thread
\* for the same key invokes the provider no more, so that the two calls
\* invoke it once at most, and is served the cache path.
C1_CacheHitSkipsProvider ==
    [][\A p \in AllProcs :
        /\ (/\ pc[p] = "gen_lookup"
            /\ pc'[p] # "gen_lookup"
            /\ req[p].use_cache
            /\ CallKey(p) # NoKey
            /\ CallKey(p) \in DOMAIN cache)
           => /\ providerCalls' = providerCalls
              /\ pc'[p] # "gen_synth"
              /\ ev'.op = "gen_hit"
              /\ ev'.calls = 0
              /\ req[p].output_path = NoPath
                 => /\ ev'.path = CachePath(CallKey(p))
                    /\ ~ev'.err
        /\ (ev'.p = p /\ ev'.prevSame)
           => /\ ev'.op = "gen_hit"
              /\ ev'.calls = 0
              /\ ev'.prevCalls + ev'.calls <= 1
              /\ providerCalls' = providerCalls
              /\ req[p].output_path = NoPath => ev'.path = CachePath(ev'.key)
      ]_vars

\* C1 witness: the second of two calls for one key has been served from the
\* cache path, the first having invoked the provider, once
C1_Witness ==
    /\ ev.op = "gen_hit"
    /\ ev.prevSame
    /\ ev.prevCalls = 1
    /\ ev.calls = 0
    /\ ev.path = CachePath(ev.key)
    /\ providerCalls = 1

\* C2: two (text, language, slow) triples that differ in a field have
\* different cache keys
C2_DistinctTriplesDistinctKeys ==
    (/\ keyOut # <<>>
     /\ <<keyIn[1].text, keyIn[1].lang, keyIn[1].slow>>
            # <<keyIn[2].text, keyIn[2].lang, keyIn[2].slow>>)
    => keyOut[1] # keyOut[2]

\* C3: two calls of _get_cache_key for the same (text, language, slow), on
\* engines that may differ in their cache directory, return the same key
C3_KeyDeterministic ==
    (/\ keyOut # <<>>
     /\ keyIn[1].text = keyIn[2].text
     /\ keyIn[1].lang = keyIn[2].lang
     /\ keyIn[1].slow = keyIn[2].slow)
    => keyOut[1] = keyOut[2]

\* C3 witness: two engines with different cache directories have computed
\* the key of one triple
C3_Witness ==
    /\ keyOut # <<>>
    /\ keyIn[1].text = keyIn[2].text
    /\ keyIn[1].lang = keyIn[2].lang
    /\ keyIn[1].slow = keyIn[2].slow
    /\ keyIn[1].cache_dir # keyIn[2].cache_dir
    /\ keyOut[1] = keyOut[2]

\* C4: when generate_audio with use_cache has missed, called the provider and
\* stored the result, it returns the output path, the file there holds the
\* payload of the provider, and a lookup of the same text returns the cache
\* path of its key, whose file holds the same payload
C4_StoreThenLookupRoundTrip ==
    [][\A p \in AllProcs :
        (pc[p] = "gen_store" /\ ev'.op = "gen_store" /\ ev'.p = p /\ ~ev'.err)
        => \A e \in {EngineOf(req[p])}, t \in {loc[p].text},
              out \in {loc[p].output_path}, payload \in {loc[p].payload} :
              /\ ev'.path = out
              /\ Exists(out)'
              /\ Contents(out)' = payload
              /\ GetCachedPath(e, t)' = CachePath(GetCacheKey(e, t))
              /\ Contents(CachePath(GetCacheKey(e, t)))' = payload
      ]_vars

\* C4 witness: a miss has been stored, and cache and output hold its payload
C4_Witness ==
    /\ ev.op = "gen_store"
    /\ ~ev.err
    /\ ev.path.dir = "output"
    /\ ev.key \in DOMAIN cache
    /\ cache[ev.key].data = providerCalls
    /\ output[ev.path.id].data = providerCalls

\* C5: when clean_cache(max_files) lists more than max_files files, no two
\* of them with the same modification time, and no filesystem error occurs,
\* it leaves max_files files, each untouched, and every file it removed is
\* older than every file it left
C5_CleanCacheKeepsNewest ==
    [][(/\ ev'.op = "clean_cache"
        /\ ~ev'.err
        /\ Cardinality(DOMAIN cache) > ev'.arg
        /\ ~HasTies(cache))
       => /\ DOMAIN cache' \subseteq DOMAIN cache
          /\ Cardinality(DOMAIN cache') = ev'.arg
          /\ Cardinality(DOMAIN cache \ DOMAIN cache') = Cardinality(DOMAIN cache) - ev'.arg
          /\ \A k \in DOMAIN cache' : cache'[k] = cache[k]
          /\ \A r \in DOMAIN cache \ DOMAIN cache', k \in DOMAIN cache' :
                cache[r].mtime < cache[k].mtime
      ]_vars

\* C5 witness: clean_cache(1) has listed three files of different ages and
\* left one
C5_Witness ==
    /\ ev.op = "clean_cache"
    /\ ~ev.err
    /\ ~ev.ties
    /\ ev.arg = 1
    /\ ev.listed = 3
    /\ Cardinality(DOMAIN cache) = 1

\* C6: when no filesystem error occurs, clean_output(max_age_hours) removes
\* the output files whose age, the time of the sweep less the modification
\* time, exceeds max_age_hours * 3600 seconds, and leaves every other output
\* file as it was
C6_CleanOutputRemovesStale ==
    [][(ev'.op = "clean_output" /\ ~ev'.err)
       => /\ DOMAIN output' =
                {f \in DOMAIN output : ~(clock - output[f].mtime > ev'.arg * 3600)}
          /\ \A f \in DOMAIN output' : output'[f] = output[f]
      ]_vars

\* C6 witness: clean_output(1) has listed three files, removed some, and
\* left a file that is exactly one hour old
C6_Witness ==
    /\ ev.op = "clean_output"
    /\ ~ev.err
    /\ ev.arg = 1
    /\ ev.listed = 3
    /\ Cardinality(DOMAIN output) < 3
    /\ \E f \in DOMAIN output : clock - output[f].mtime = 3600

\* C7: the provider is never invoked for a request to /tts or /tts/stream
\* whose text is longer than MAX_TEXT_LENGTH
C7_OverLengthNeverReachesProvider ==
    (ev.op = "gen_synth" /\ req[ev.p].endpoint \in {"tts", "tts_stream"})
    => StrLen(Strip(req[ev.p].text)) <= MAX_TEXT_LENGTH

\* C8 as claimed: no step of a request whose text is empty after trimming
\* invokes the provider or changes the cache or the output directory, and
\* the request is answered with the validation error
C8_EmptyTextChangesNothing ==
    [][\A p \in AllProcs :
        (/\ ev'.p = p
         /\ \/ req[p].endpoint \in {"tts", "tts_stream"} /\ Strip(req[p].text) = <<>>
            \/ req'[p].endpoint \in {"tts", "tts_stream"} /\ Strip(req'[p].text) = <<>>)
        => /\ providerCalls' = providerCalls
           /\ cache' = cache
           /\ output' = output
           /\ pc'[p] \in {"cleanup_check", "cleanup_sweep", "validate", "idle"}
           /\ pc'[p] = "idle" => resp'[p].status = 400 /\ resp'[p].body = "required"
      ]_vars

\* C8 as amended: no step of a request whose text is empty after trimming
\* invokes the provider or creates or modifies a file: every file of the
\* cache, output and caller directories after the step was there before it,
\* unchanged (the sweep that /tts runs before validation may remove files);
\* and the request is answered with the validation error
C8_EmptyTextWritesNothing ==
    [][\A p \in AllProcs :
        (/\ ev'.p = p
         /\ \/ req[p].endpoint \in {"tts", "tts_stream"} /\ Strip(req[p].text) = <<>>
            \/ req'[p].endpoint \in {"tts", "tts_stream"} /\ Strip(req'[p].text) = <<>>)
        => /\ providerCalls' = providerCalls
           /\ nextId' = nextId
           /\ \A k \in DOMAIN cache' : k \in DOMAIN cache /\ cache'[k] = cache[k]
           /\ \A f \in DOMAIN output' : f \in DOMAIN output /\ output'[f] = output[f]
           /\ user' = user
           /\ pc'[p] \in {"cleanup_check", "cleanup_sweep", "validate", "idle"}
           /\ pc'[p] = "idle" => resp'[p].status = 400 /\ resp'[p].body = "required"
      ]_vars

\* C8 witness: a request to /tts with an empty text has been answered with
\* the validation error, after its sweep removed the output file of the
\* request before it
C8_Witness ==
    /\ ev.op = "tts_invalid"
    /\ resp[ev.p].status = 400
    /\ resp[ev.p].body = "required"
    /\ last_cleanup_time > 0
    /\ nextId = 1
    /\ DOMAIN output = {}
    /\ nCalls = 2

\* C9: when a sweep fails on an entry, every other entry that its policy
\* selects is removed all the same: clean_output removes every other stale
\* file, and clean_cache leaves no more than max_files files besides the
\* entry it failed on
C9_SweepSkipsFailedEntryOnly ==
    [][/\ (ev'.op = "clean_output" /\ ev'.errOut # {})
          => \A f \in DOMAIN output \ ev'.errOut :
                clock - output[f].mtime > ev'.arg * 3600 => f \notin DOMAIN output'
       /\ (ev'.op = "clean_cache" /\ ev'.errCache # {})
          => Cardinality(DOMAIN cache' \ ev'.errCache) <= ev'.arg
      ]_vars

\* C10: whatever fails inside clean_output or clean_cache, run_periodic_cleanup
\* returns to the handler: the request goes on to its validation unchanged,
\* the timestamp is set as after a sweep without failure, and no response
\* carries an error of the sweep
C10_SweepNeverAbortsRequest ==
    [][\A p \in AllProcs :
        (pc[p] = "cleanup_sweep" /\ pc'[p] # "cleanup_sweep")
        => /\ pc'[p] = "validate"
           /\ ev'.op = "cleanup_sweep"
           /\ req'[p] = req[p]
           /\ resp'[p] = resp[p]
           /\ last_cleanup_time' = loc[p].current_time
           /\ resp'[p].body # "internal"
      ]_vars

\* C10 witness: a sweep has failed on an output file and the request stands
\* at its validation
C10_Witness ==
    /\ ev.op = "cleanup_sweep"
    /\ ev.err
    /\ ev.errOut # {}
    /\ pc[ev.p] = "validate"
    /\ req[ev.p].endpoint = "tts"

\* C11: when two requests served at the same time have both missed the cache
\* for one key and both called the provider, the copy into the cache that
\* ends last raises no error and leaves one file for the key, which holds
\* the audio of the request that wrote last
C11_LastWriterWins ==
    [][\A p, q \in AllProcs :
        (/\ p # q
         /\ pc[p] = "gen_store"
         /\ pc'[p] # "gen_store"
         /\ pc[q] = "respond"
         /\ loc[q].calls = 1
         /\ loc[q].key = CallKey(p))
        => /\ ~ev'.err
           /\ CallKey(p) \in DOMAIN cache'
           /\ cache'[CallKey(p)].data = loc[p].payload
      ]_vars

\* C12: every request for synthesis, to /tts or /tts/stream, that arrives
\* more than CLEANUP_INTERVAL seconds after the last sweep has the timestamp
\* checked and both sweeps run before it is served, and the timestamp is
\* then the time read at the check; a check made sooner runs no sweep and
\* leaves the timestamp; the timestamp and the files removed change in no
\* other step, so no sweep runs without a request, and two sweeps are more
\* than CLEANUP_INTERVAL seconds apart
C12_SweepOnEveryDueRequest ==
    [][/\ \A p \in AllProcs :
            /\ (/\ pc[p] = "idle"
                /\ pc'[p] # "idle"
                /\ req'[p].endpoint \in {"tts", "tts_stream"}
                /\ clock - last_cleanup_time > CLEANUP_INTERVAL)
               => pc'[p] = "cleanup_check"
            /\ (pc[p] = "cleanup_check" /\ pc'[p] # "cleanup_check")
               => IF clock - last_cleanup_time > CLEANUP_INTERVAL
                  THEN pc'[p] = "cleanup_sweep" /\ loc'[p].current_time = clock
                  ELSE /\ pc'[p] = "validate"
                       /\ UNCHANGED <<last_cleanup_time, cache, output>>
            /\ (pc[p] = "cleanup_sweep" /\ pc'[p] # "cleanup_sweep")
               => /\ pc'[p] = "validate"
                  /\ last_cleanup_time' = loc[p].current_time
                  /\ last_cleanup_time' - last_cleanup_time > CLEANUP_INTERVAL
       /\ (\/ last_cleanup_time' # last_cleanup_time
           \/ DOMAIN cache \ DOMAIN cache' # {}
           \/ DOMAIN output \ DOMAIN output' # {})
          => \E p \in AllProcs :
                /\ pc[p] = "cleanup_sweep"
                /\ pc'[p] # "cleanup_sweep"
                /\ req[p].endpoint \in {"tts", "tts_stream"}
      ]_vars

\* C13: when the provider fails, generate_audio invokes it that once, returns
\* None and adds no file to the cache, so that a lookup of the key finds
\* nothing; the handler answers 500 with success=false, having changed no
\* file; and the next request of the thread for the same key misses the
\* cache and invokes the provider again
C13_ProviderFailureFailsRequest ==
    [][\A p \in AllProcs :
        /\ (pc[p] = "gen_synth" /\ ev'.p = p /\ ev'.op = "gen_synth" /\ ev'.err)
           => /\ providerCalls' = providerCalls + 1
              /\ ev'.calls = 1
              /\ ev'.path = NoPath
              /\ cache' = cache
              /\ GetCachedPath(EngineOf(req[p]), loc[p].text)' = NoPath
              /\ req[p].endpoint \in {"tts", "tts_stream"}
                 => pc'[p] = "respond" /\ loc'[p].audio_path = NoPath
        /\ (pc[p] = "respond" /\ pc'[p] # "respond" /\ loc[p].failed # NoKey)
           => /\ resp'[p].status = 500
              /\ resp'[p].body = "failed"
              /\ resp'[p].calls = 1
              /\ UNCHANGED <<providerCalls, cache, output>>
        /\ (/\ pc[p] = "gen_lookup"
            /\ pc'[p] # "gen_lookup"
            /\ resp[p].failed # NoKey
            /\ resp[p].failed = CallKey(p))
           => pc'[p] = "gen_synth" /\ providerCalls' = providerCalls
        /\ (/\ pc[p] = "gen_synth"
            /\ pc'[p] # "gen_synth"
            /\ resp[p].failed # NoKey
            /\ resp[p].failed = CallKey(p))
           => providerCalls' = providerCalls + 1
      ]_vars

\* C13 witness: the provider has failed a second time for the key it failed
\* for in the request before, which was answered 500, and the cache is empty
C13_Witness ==
    /\ ev.op = "gen_synth"
    /\ ev.err
    /\ resp[ev.p].failed # NoKey
    /\ resp[ev.p].failed = loc[ev.p].failed
    /\ resp[ev.p].status = 500
    /\ resp[ev.p].body = "failed"
    /\ providerCalls = 2
    /\ DOMAIN cache = {}

\* C14: no step of a call of generate_audio with use_cache=False changes the
\* cache; the call goes from its check of the text to the provider also when
\* the cache holds a file for the text; and when the provider has answered
\* the call returns the output path, whose file holds the audio, having
\* written no other file
C14_NoCacheLeavesCacheAlone ==
    [][\A p \in AllProcs :
        (ev'.p = p /\ req[p].endpoint = "api" /\ ~req[p].use_cache)
        => /\ cache' = cache
           /\ (pc[p] = "gen_lookup" /\ Strip(loc[p].text) # <<>>)
              => pc'[p] = "gen_synth" /\ UNCHANGED <<output, user, providerCalls>>
           /\ pc[p] = "gen_synth"
              => /\ providerCalls' = providerCalls + 1
                 /\ pc'[p] = "idle"
                 /\ ev'.calls = 1
                 /\ ~ev'.err
                    => IF req[p].output_path = NoPath
                       THEN /\ ev'.path = OutputPath(nextId')
                            /\ nextId' \notin DOMAIN output
                            /\ DOMAIN output' = DOMAIN output \cup {nextId'}
                            /\ output'[nextId'].data = providerCalls'
                            /\ \A f \in DOMAIN output : output'[f] = output[f]
                            /\ user' = user
                       ELSE /\ ev'.path = req[p].output_path
                            /\ DOMAIN user' = DOMAIN user \cup {ev'.path.name}
                            /\ user'[ev'.path.name].data = providerCalls'
                            /\ output' = output
      ]_vars

\* C14 witness: a call with use_cache=False has invoked the provider and
\* returned while the cache held a file for its text, with another audio
C14_Witness ==
    /\ ev.op = "gen_synth"
    /\ ~ev.err
    /\ ev.key = NoKey
    /\ ev.inCache
    /\ ev.calls = 1
    /\ providerCalls = 2
    /\ \A k \in DOMAIN cache : cache[k].data = 1

\* C15: clean_output leaves the cache directory as it was, whatever the age
\* of its files, and adds no output file; clean_cache leaves the output
\* directory as it was and adds no cache file; and clean_cache changes
\* nothing when the cache holds max_files files or fewer
C15_SweepsActOnTheirOwnStore ==
    [][/\ ev'.op = "clean_output"
          => /\ cache' = cache
             /\ \A f \in DOMAIN output' : f \in DOMAIN output /\ output'[f] = output[f]
       /\ ev'.op = "clean_cache"
          => /\ output' = output
             /\ \A k \in DOMAIN cache' : k \in DOMAIN cache /\ cache'[k] = cache[k]
             /\ Cardinality(DOMAIN cache) <= ev'.arg => cache' = cache
      ]_vars

\* C15 witness: clean_cache(2) has listed two files and left both, and an
\* output file older than an hour is still there
C15_Witness ==
    /\ ev.op = "clean_cache"
    /\ ev.arg = 2
    /\ ev.listed = 2
    /\ Cardinality(DOMAIN cache) = 2
    /\ \E f \in DOMAIN output : clock - output[f].mtime > SECONDS_PER_HOUR

\* C16: a call of generate_audio without an output path that is served from
\* the cache invokes no provider and leaves every directory as it was: no
\* output file is made, no cache file is made or removed, and the file it is
\* served from keeps its modification time; and the modification time of a
\* cache file changes in no step but a copy into the cache, so that the
\* order in which clean_cache removes files is that of their last writes
C16_CacheHitReadsOnly ==
    [][/\ \A p \in AllProcs :
            (/\ pc[p] = "gen_lookup"
             /\ ev'.p = p
             /\ ev'.op = "gen_hit"
             /\ req[p].output_path = NoPath)
            => /\ UNCHANGED <<cache, output, user, nextId, providerCalls>>
               /\ ev'.path.dir = "cache"
               /\ cache'[ev'.path.key].mtime = cache[ev'.path.key].mtime
               /\ \A order \in GlobOrders(cache) :
                     SortByMtime(order, cache') = SortByMtime(order, cache)
       /\ \A k \in DOMAIN cache \cap DOMAIN cache' :
            cache'[k].mtime # cache[k].mtime => ev'.op \in {"gen_open", "gen_store"}
      ]_vars

\* C16 witness: a call has been served from a cache file written before the
\* clock last advanced, and the file has the modification time of its write
C16_Witness ==
    /\ ev.op = "gen_hit"
    /\ ~ev.err
    /\ ev.path = CachePath(ev.key)
    /\ ev.key \in DOMAIN cache
    /\ cache[ev.key].mtime < clock
    /\ nextId = 1
    /\ providerCalls = 1

\* C17: when generate_audio has returned a path to the handler of /tts or
\* /tts/stream, the file is still there at the step in which the handler
\* sends it or returns its URL, and the answer is 200, also when the other
\* thread has run its sweeps in between
C17_ReturnedFileStillThere ==
    [][\A p \in AllProcs :
        (pc[p] = "respond" /\ pc'[p] # "respond" /\ loc[p].audio_path # NoPath)
        => /\ Exists(loc[p].audio_path)
           /\ resp'[p].status = 200
      ]_vars

====
